---------------------------- MODULE Spec2Model ----------------------------
(***************************************************************************)
(* parseCommands of packages/RN-TSCodegen/src/ComponentCommandParser.ts.   *)
(*                                                                         *)
(* The function walks info.supportedCommands, asks the TypeScript type     *)
(* checker for the member of each name, normalises its declaration to      *)
(* (funcDecl, funcReturnType, funcParameters), validates the shape, and    *)
(* pushes one CommandTypeShape.  Every failure is a throw that leaves      *)
(* the function at once.                                                   *)
(*                                                                         *)
(* One loop iteration is one step of the model.  What the type checker     *)
(* answers for a name (mappedType.getProperty) is an input: it is drawn    *)
(* when the loop first asks for that name and kept, so that a name that    *)
(* is requested twice resolves to the same symbol.                         *)
(*                                                                         *)
(* Inputs are declarations as the TypeScript parser and checker build      *)
(* them for an interface that type-checks: every symbol has a              *)
(* declarations array, every method, call signature and parameter has a    *)
(* declared type, and getCallSignatures() answers an array.                *)
(***************************************************************************)
EXTENDS Naturals, Sequences, FiniteSets

VARIABLES
    supportedCommands,  \* info.supportedCommands: the request, in order
    members,            \* what mappedType.getProperty answers, per name asked so far
    idx,                \* position of the for-of loop in supportedCommands (1-based)
    commands,           \* the local array `commands` (line 10)
    pc,                 \* "loop" | "returned" | "thrown"
    returned,           \* the value handed to the caller: [defined, value]
    thrown              \* the Error thrown, kind "none" while none was

vars == <<supportedCommands, members, idx, commands, pc, returned, thrown>>

(***************************************************************************)
(* Bounds of the model.                                                    *)
(***************************************************************************)
MaxCommands == 2

\* Names a request may hold.
CommandNames == {"focus", "setColor"}

\* info.typeNode.getText(): the text every message embeds.
TypeText == "MyCommands"

RECURSIVE SeqsUpTo(_, _)
SeqsUpTo(S, n) ==
    IF n = 0 THEN {<<>>}
    ELSE LET shorter == SeqsUpTo(S, n - 1)
         IN  shorter \cup {Append(s, x) : s \in {t \in shorter : Len(t) = n - 1}, x \in S}

Requests == SeqsUpTo(CommandNames, MaxCommands)

(***************************************************************************)
(* Semantic types, as far as this file looks at them: the answers of the   *)
(* four predicates of ./TypeChecker.  The predicates are external to this  *)
(* file; any combination of answers is admitted for a parameter type.      *)
(***************************************************************************)
Sem(s, b, i, v) == [isString |-> s, isBoolean |-> b, isInt32 |-> i, isVoid |-> v]

isString(type) == type.isString
isBoolean(type) == type.isBoolean
isInt32(type) == type.isInt32
isVoid(type) == type.isVoid

VoidType == Sem(FALSE, FALSE, FALSE, TRUE)
StringType == Sem(TRUE, FALSE, FALSE, FALSE)
BooleanType == Sem(FALSE, TRUE, FALSE, FALSE)
Int32Type == Sem(FALSE, FALSE, TRUE, FALSE)
ObjectType == Sem(FALSE, FALSE, FALSE, FALSE)

(***************************************************************************)
(* Syntax nodes.  A type node carries its SyntaxKind, its source text,     *)
(* for a TypeReference its typeName text and typeArguments, and the        *)
(* semantic type typeChecker.getTypeFromTypeNode resolves it to.           *)
(*                                                                         *)
(* typeArguments is a NodeArray<TypeNode> or undefined.  The parser        *)
(* builds a string literal in type position ('MyView' in Ref<'MyView'>)    *)
(* as a LiteralTypeNode, kind LiteralType, whose field `literal` is the    *)
(* StringLiteral token; a StringLiteral is an expression and never         *)
(* itself an element of typeArguments.                                     *)
(***************************************************************************)
LiteralTypeArg == [kind |-> "LiteralType", literal |-> "StringLiteral"]
NumberLiteralTypeArg == [kind |-> "LiteralType", literal |-> "NumericLiteral"]
KeywordTypeArg == [kind |-> "StringKeyword", literal |-> "none"]

NoTypeArguments == [defined |-> FALSE, nodes |-> <<>>]
TypeArguments(nodes) == [defined |-> TRUE, nodes |-> nodes]

TypeArgumentLists ==
    {NoTypeArguments,
     TypeArguments(<<LiteralTypeArg>>),
     TypeArguments(<<NumberLiteralTypeArg>>),
     TypeArguments(<<KeywordTypeArg>>),
     TypeArguments(<<LiteralTypeArg, LiteralTypeArg>>)}

TypeNode(kind, text, typeName, typeArguments, sem) ==
    [kind |-> kind, text |-> text, typeName |-> typeName,
     typeArguments |-> typeArguments, sem |-> sem]

KeywordNode(kind, text, sem) == TypeNode(kind, text, "", NoTypeArguments, sem)

StringNode == KeywordNode("StringKeyword", "string", StringType)
BooleanNode == KeywordNode("BooleanKeyword", "boolean", BooleanType)
ArrayNode == KeywordNode("ArrayType", "number[]", ObjectType)
Int32Node == TypeNode("TypeReference", "Int32", "Int32", NoTypeArguments, Int32Type)

\* Ref<'MyView'>, the documented shape of the first parameter.
RefNode == TypeNode("TypeReference", "Ref<'MyView'>", "Ref",
                    TypeArguments(<<LiteralTypeArg>>), ObjectType)

\* References spelled Ref or React.Ref, with every list of type arguments.
RefNodes ==
    {TypeNode("TypeReference",
              IF a = TypeArguments(<<LiteralTypeArg>>) THEN n \o "<'MyView'>"
              ELSE IF a = NoTypeArguments THEN n ELSE n \o "<...>",
              n, a, ObjectType)
        : n \in {"Ref", "React.Ref"}, a \in TypeArgumentLists}

\* Type aliases the predicates answer several times, or not at all.
AliasNodes ==
    {TypeNode("TypeReference", "Alias", "Alias", NoTypeArguments, Sem(s, b, i, FALSE))
        : s \in BOOLEAN, b \in BOOLEAN, i \in BOOLEAN}

TypeNodes == {StringNode, BooleanNode, ArrayNode, Int32Node} \cup RefNodes \cup AliasNodes


(***************************************************************************)
(* Parameters.  A ParameterDeclaration has a name and a declared type.     *)
(* A call signature of a property's type holds parameter symbols, each     *)
(* with its own list of declarations.                                      *)
(***************************************************************************)
ParameterDeclaration(name, type) == [kind |-> "Parameter", name |-> name, type |-> type]

\* Source identifiers of the parameters, by position.
ParamNames == <<"ref", "color", "animated">>

Params(types) == [j \in 1..Len(types) |-> ParameterDeclaration(ParamNames[j], types[j])]

\* Types of the parameters after the first: every predicate answer.
RestNodes == {StringNode, BooleanNode, ArrayNode, Int32Node} \cup AliasNodes

ParamTypeLists ==
    {<<>>}
    \cup {<<t>> : t \in TypeNodes}
    \cup {<<f, t>> : f \in {RefNode, StringNode}, t \in RestNodes}
    \cup {<<RefNode, a, b>> : a \in {StringNode, BooleanNode, ArrayNode},
                              b \in {BooleanNode, Int32Node, ArrayNode}}

ParameterLists == {Params(types) : types \in ParamTypeLists}

\* focus(viewRef: Ref<'MyView'>, durationMs: Int32): void
FocusParameters ==
    <<ParameterDeclaration("viewRef", RefNode), ParameterDeclaration("durationMs", Int32Node)>>

\* (ref: Ref<'MyView'>, color: string, animated: boolean) => void
SetColorParameters == Params(<<RefNode, StringNode, BooleanNode>>)

\* A parameter symbol of a signature: its name and its declarations.
ParameterSymbol(name, declarations) == [name |-> name, declarations |-> declarations]

SymbolOf(param) == ParameterSymbol(param.name, <<param>>)

\* The ways a parameter symbol is not backed by exactly one parameter node.
MalformedSymbols(param) ==
    {ParameterSymbol(param.name, <<>>),
     ParameterSymbol(param.name, <<param, param>>),
     ParameterSymbol(param.name, <<[param EXCEPT !.kind = "JSDocParameterTag"]>>)}

SymbolLists(params) == [j \in 1..Len(params) |-> SymbolOf(params[j])]

PropertyTypeLists ==
    {<<>>, <<StringNode>>, <<RefNode, StringNode, BooleanNode>>, <<RefNode, ArrayNode, ArrayNode>>}
    \cup {<<t>> : t \in RefNodes}
    \cup {<<RefNode, t>> : t \in {StringNode, BooleanNode, ArrayNode, Int32Node}}

WellFormedSymbolLists == {SymbolLists(Params(types)) : types \in PropertyTypeLists}

MalformedAt(params, k) ==
    {[SymbolLists(params) EXCEPT ![k] = bad] : bad \in MalformedSymbols(params[k])}

MalformedSymbolLists ==
    UNION {UNION {MalformedAt(Params(types), k) : k \in 1..Len(types)}
            : types \in {<<StringNode>>, <<RefNode, StringNode>>,
                         <<RefNode, ArrayNode, ArrayNode>>}}

(***************************************************************************)
(* Declarations of a member.  typeParameters is a list or undefined;       *)
(* questionToken is modelled by whether it is present.  For a method or    *)
(* call signature `type` is the semantic type of the declared return type  *)
(* and `parameters` its ParameterDeclarations; for a property signature    *)
(* `callSignatures` is getCallSignatures() of the property's type.         *)
(***************************************************************************)
NoTypeParameters == [defined |-> FALSE, names |-> <<>>]
TypeParameters(names) == [defined |-> TRUE, names |-> names]

TypeParameterLists == {NoTypeParameters, TypeParameters(<<>>), TypeParameters(<<"T">>)}

ReturnTypes == {VoidType, StringType}

Signature(typeParameters, returnType, parameters) ==
    [typeParameters |-> typeParameters, returnType |-> returnType, parameters |-> parameters]

Declaration(kind, questionToken, typeParameters, type, parameters, callSignatures) ==
    [kind |-> kind, questionToken |-> questionToken, typeParameters |-> typeParameters,
     type |-> type, parameters |-> parameters, callSignatures |-> callSignatures]

MethodSignatures ==
    {Declaration("MethodSignature", q, tp, rt, ps, <<>>)
        : q \in BOOLEAN, tp \in TypeParameterLists, rt \in ReturnTypes, ps \in ParameterLists}

CallSignatureDeclarations ==
    {Declaration("CallSignature", q, tp, rt, ps, <<>>)
        : q \in BOOLEAN, tp \in {NoTypeParameters, TypeParameters(<<"T">>)}, rt \in ReturnTypes,
          ps \in {Params(<<>>), Params(<<RefNode>>), Params(<<RefNode, StringNode>>)}}

Signatures ==
    {Signature(tp, rt, ps)
        : tp \in TypeParameterLists, rt \in ReturnTypes, ps \in WellFormedSymbolLists}
    \cup {Signature(tp, rt, ps)
        : tp \in {NoTypeParameters, TypeParameters(<<"T">>)}, rt \in ReturnTypes,
          ps \in MalformedSymbolLists}

VoidSignature == Signature(NoTypeParameters, VoidType, SymbolLists(Params(<<RefNode>>)))

PropertySignatures ==
    {Declaration("PropertySignature", q, NoTypeParameters, ObjectType, <<>>, <<s>>)
        : q \in BOOLEAN, s \in Signatures}
    \cup {Declaration("PropertySignature", q, NoTypeParameters, ObjectType, <<>>, ss)
        : q \in BOOLEAN, ss \in {<<>>, <<VoidSignature, VoidSignature>>}}

\* A declaration that is neither kind of signature (a class method, say).
OtherDeclarations ==
    {Declaration("MethodDeclaration", q, NoTypeParameters, VoidType, Params(<<RefNode>>), <<>>)
        : q \in BOOLEAN}

FocusDeclaration ==
    Declaration("MethodSignature", FALSE, NoTypeParameters, VoidType, FocusParameters, <<>>)

SetColorDeclaration ==
    Declaration("PropertySignature", FALSE, NoTypeParameters, ObjectType, <<>>,
                <<Signature(NoTypeParameters, VoidType, SymbolLists(SetColorParameters))>>)

Declarations ==
    MethodSignatures \cup CallSignatureDeclarations \cup PropertySignatures
    \cup OtherDeclarations \cup {FocusDeclaration}

(***************************************************************************)
(* Member symbols: what mappedType.getProperty(commandName) answers.       *)
(* `asked` is bookkeeping of the model; `found` is FALSE for undefined.    *)
(***************************************************************************)
MemberSymbol(declarations) == [asked |-> TRUE, found |-> TRUE, declarations |-> declarations]

NotAsked == [asked |-> FALSE, found |-> FALSE, declarations |-> <<>>]
Undefined == [asked |-> TRUE, found |-> FALSE, declarations |-> <<>>]

MemberSymbols ==
    {MemberSymbol(<<d>>) : d \in Declarations}
    \cup {MemberSymbol(<<>>), MemberSymbol(<<FocusDeclaration, FocusDeclaration>>)}

GetPropertyAnswers == MemberSymbols \cup {Undefined}


(***************************************************************************)
(* The errors.  The code throws Error with a message; the model names a    *)
(* message by the kind the specification gives it and keeps the texts      *)
(* the message embeds: the command, the owning type, and where the         *)
(* message has them the parameter and its declared type.                   *)
(*   "Unable to find command ..."               MemberNotFound             *)
(*   "... should not be generic."               GenericNotAllowed          *)
(*   "Parameter ... should be a parameter."     MalformedParameter         *)
(*   "... should be a function."                NotAFunction               *)
(*   "... should return void."                  NonVoidReturn              *)
(*   "... should have at least one parameter."  MissingRefParameter        *)
(*   "The first parameter ... React.Ref<'NAME'>." InvalidRefParameter      *)
(*   "Parameter ... should be either string, ..." UnsupportedParamType     *)
(***************************************************************************)
Err(kind, commandName, parameter, paramType) ==
    [kind |-> kind, command |-> commandName, type |-> TypeText,
     parameter |-> parameter, paramType |-> paramType]

NoError == [kind |-> "none", command |-> "", type |-> "", parameter |-> "", paramType |-> ""]

Min(S) == CHOOSE x \in S : \A y \in S : x <= y

(***************************************************************************)
(* The node tests of the typescript library: each compares node.kind.      *)
(***************************************************************************)
isMethodSignature(node) == node.kind = "MethodSignature"
isCallSignatureDeclaration(node) == node.kind = "CallSignature"
isPropertySignature(node) == node.kind = "PropertySignature"
isParameter(node) == node.kind = "Parameter"
isTypeReferenceNode(node) == node.kind = "TypeReference"

\* Variant: the literal type node of a string literal also counts.
isStringLiteralType(node) ==
    node.kind = "StringLiteral" \/ (node.kind = "LiteralType" /\ node.literal = "StringLiteral")
isStringLiteral(node) == node.kind = "StringLiteral"


\* Variant: the length of the list is not looked at.
IsGenericWhenDefined(typeParameters) == typeParameters.defined

\* decl.typeParameters !== undefined && decl.typeParameters.length !== 0
IsGeneric(typeParameters) == typeParameters.defined /\ Len(typeParameters.names) # 0

\* signatures[0].parameters.map(...): the first symbol that is not backed by
\* exactly one parameter node throws; otherwise each symbol's declaration.
MapSignatureParameters(commandName, parameters) ==
    LET bad == {j \in 1..Len(parameters) :
                    ~(Len(parameters[j].declarations) = 1
                      /\ isParameter(parameters[j].declarations[1]))}
    IN  IF bad # {}
        THEN [error |-> Err("MalformedParameter", commandName, parameters[Min(bad)].name, ""),
              value |-> <<>>]
        ELSE [error |-> NoError,
              value |-> [j \in 1..Len(parameters) |-> parameters[j].declarations[1]]]

\* What lines 17-51 leave in funcDecl, funcReturnType and funcParameters.
Resolved(funcDecl, funcReturnType, funcParameters) ==
    [error |-> NoError, defined |-> TRUE, funcDecl |-> funcDecl,
     funcReturnType |-> funcReturnType, funcParameters |-> funcParameters]

Unresolved(error) ==
    [error |-> error, defined |-> FALSE, funcDecl |-> NotAsked,
     funcReturnType |-> ObjectType, funcParameters |-> <<>>]

\* Variant: the first of several call signatures is taken.
ResolveFirstSignature(commandName, decl) ==
    LET signatures == decl.callSignatures
    IN  IF Len(signatures) >= 1
        THEN IF IsGeneric(signatures[1].typeParameters)
             THEN Unresolved(Err("GenericNotAllowed", commandName, "", ""))
             ELSE LET mapped == MapSignatureParameters(commandName, signatures[1].parameters)
                  IN  IF mapped.error.kind # "none"
                      THEN Unresolved(mapped.error)
                      ELSE Resolved(decl, signatures[1].returnType, mapped.value)
        ELSE Unresolved(NoError)

ResolveProperty(commandName, decl) ==
    LET signatures == decl.callSignatures
    IN  IF Len(signatures) = 1
        THEN IF IsGeneric(signatures[1].typeParameters)
             THEN Unresolved(Err("GenericNotAllowed", commandName, "", ""))
             ELSE LET mapped == MapSignatureParameters(commandName, signatures[1].parameters)
                  IN  IF mapped.error.kind # "none"
                      THEN Unresolved(mapped.error)
                      ELSE Resolved(decl, signatures[1].returnType, mapped.value)
        ELSE Unresolved(NoError)

ResolveDeclaration(commandName, methodSymbol) ==
    IF Len(methodSymbol.declarations) = 1
    THEN LET decl == methodSymbol.declarations[1]
         IN  IF isMethodSignature(decl) \/ isCallSignatureDeclaration(decl)
             THEN IF IsGeneric(decl.typeParameters)
                  THEN Unresolved(Err("GenericNotAllowed", commandName, "", ""))
                  ELSE Resolved(decl, decl.type, decl.parameters)
             ELSE IF isPropertySignature(decl)
                  THEN ResolveProperty(commandName, decl)
                  ELSE Unresolved(NoError)
    ELSE Unresolved(NoError)

\* Variant: only React.Ref with one type argument passes.
RefusesUnlessReactRef(viewRefType) ==
    \/ ~isTypeReferenceNode(viewRefType)
    \/ viewRefType.typeName # "React.Ref"
    \/ ~viewRefType.typeArguments.defined
    \/ Len(viewRefType.typeArguments.nodes) # 1

\* Lines 61-66: the condition under which the first parameter is refused.
RefusesViewRef(viewRefType) ==
    \/ ~isTypeReferenceNode(viewRefType)
    \/ /\ viewRefType.typeName # "React.Ref"
       /\ viewRefType.typeArguments.defined
       /\ Len(viewRefType.typeArguments.nodes) = 1
       /\ isStringLiteral(viewRefType.typeArguments.nodes[1])

\* Variant: boolean is asked before string.
TypeAnnotationBooleanFirst(paramType) ==
    IF isBoolean(paramType) THEN "BooleanTypeAnnotation"
    ELSE IF isString(paramType) THEN "StringTypeAnnotation"
    ELSE IF isInt32(paramType) THEN "Int32TypeAnnotation"
    ELSE "undefined"

\* Lines 79-85: the annotation of a parameter type, "undefined" if none.
TypeAnnotationOf(paramType) ==
    IF isString(paramType) THEN "StringTypeAnnotation"
    ELSE IF isBoolean(paramType) THEN "BooleanTypeAnnotation"
    ELSE IF isInt32(paramType) THEN "Int32TypeAnnotation"
    ELSE "undefined"

\* Variant: the slice is forgotten.
AllParameters(funcParameters) == funcParameters

\* funcParameters.slice(1)
ExposedParameters(funcParameters) == SubSeq(funcParameters, 2, Len(funcParameters))

\* Lines 75-95: .map over the exposed parameters; the first parameter
\* without an annotation throws.
MapParams(commandName, params) ==
    LET bad == {j \in 1..Len(params) : TypeAnnotationOf(params[j].type.sem) = "undefined"}
    IN  IF bad # {}
        THEN [error |-> Err("UnsupportedParamType", commandName,
                            params[Min(bad)].name, params[Min(bad)].type.text),
              value |-> <<>>]
        ELSE [error |-> NoError,
              value |-> [j \in 1..Len(params) |->
                            [name |-> params[j].name,
                             typeAnnotation |-> [type |-> TypeAnnotationOf(params[j].type.sem)]]]]

\* Variant: the comparison is inverted.
OptionalInverted(funcDecl) == ~funcDecl.questionToken

\* funcDecl.questionToken !== undefined
Optional(funcDecl) == funcDecl.questionToken

CommandTypeShape(commandName, optional, params) ==
    [name |-> commandName, optional |-> optional,
     typeAnnotation |-> [type |-> "FunctionTypeAnnotation", params |-> params]]

NoShape == CommandTypeShape("", FALSE, <<>>)

Threw(error) == [error |-> error, shape |-> NoShape]

\* Variant: the arity is checked before the return type.
ValidateArityFirst(commandName, r) ==
    IF Len(r.funcParameters) = 0
    THEN Threw(Err("MissingRefParameter", commandName, "", ""))
    ELSE IF ~isVoid(r.funcReturnType)
    THEN Threw(Err("NonVoidReturn", commandName, "", ""))
    ELSE IF RefusesViewRef(r.funcParameters[1].type)
    THEN Threw(Err("InvalidRefParameter", commandName, "", ""))
    ELSE LET mapped == MapParams(commandName, ExposedParameters(r.funcParameters))
         IN  IF mapped.error.kind # "none"
             THEN Threw(mapped.error)
             ELSE [error |-> NoError,
                   shape |-> CommandTypeShape(commandName, Optional(r.funcDecl), mapped.value)]

\* Lines 53-97, for a member that resolved to a signature.
ValidateAndBuild(commandName, r) ==
    IF ~isVoid(r.funcReturnType)
    THEN Threw(Err("NonVoidReturn", commandName, "", ""))
    ELSE IF Len(r.funcParameters) = 0
    THEN Threw(Err("MissingRefParameter", commandName, "", ""))
    ELSE IF RefusesViewRef(r.funcParameters[1].type)
    THEN Threw(Err("InvalidRefParameter", commandName, "", ""))
    ELSE LET mapped == MapParams(commandName, ExposedParameters(r.funcParameters))
         IN  IF mapped.error.kind # "none"
             THEN Threw(mapped.error)
             ELSE [error |-> NoError,
                   shape |-> CommandTypeShape(commandName, Optional(r.funcDecl), mapped.value)]

\* One iteration of the loop body, lines 12-97: the error it throws, or
\* the entry it pushes.
ParseCommand(commandName, methodSymbol) ==
    IF ~methodSymbol.found
    THEN Threw(Err("MemberNotFound", commandName, "", ""))
    ELSE LET r == ResolveDeclaration(commandName, methodSymbol)
         IN  IF r.error.kind # "none" THEN Threw(r.error)
             ELSE IF ~r.defined THEN Threw(Err("NotAFunction", commandName, "", ""))
             ELSE ValidateAndBuild(commandName, r)

\* Variant: an entry whose name is already in the list is dropped.
PushUnique(list, entry) ==
    IF \E i \in 1..Len(list) : list[i].name = entry.name THEN list ELSE Append(list, entry)

\* commands.push(entry), line 70.
Push(list, entry) == Append(list, entry)

(***************************************************************************)
(* The state machine.                                                      *)
(***************************************************************************)
NotReturned == [defined |-> FALSE, value |-> <<>>]

Init ==
    /\ supportedCommands \in Requests
    /\ members = [n \in CommandNames |-> NotAsked]
    /\ idx = 1
    /\ commands = <<>>
    /\ pc = "loop"
    /\ returned = NotReturned
    /\ thrown = NoError

\* mappedType.getProperty(commandName): any member symbol or undefined, and
\* the same answer whenever the same name is asked again.
GetProperty(commandName) ==
    IF members[commandName].asked THEN {members[commandName]} ELSE GetPropertyAnswers

\* An iteration that reaches commands.push.
LoopPush ==
    /\ pc = "loop"
    /\ idx <= Len(supportedCommands)
    /\ LET commandName == supportedCommands[idx]
       IN  \E methodSymbol \in GetProperty(commandName) :
            LET parsed == ParseCommand(commandName, methodSymbol)
            IN  /\ parsed.error.kind = "none"
                /\ members' = [members EXCEPT ![commandName] = methodSymbol]
                /\ commands' = Push(commands, parsed.shape)
                /\ idx' = idx + 1
    /\ UNCHANGED <<supportedCommands, pc, returned, thrown>>

\* Variant: the failure hands back what was accumulated.
LoopThrowPartial ==
    /\ pc = "loop"
    /\ idx <= Len(supportedCommands)
    /\ LET commandName == supportedCommands[idx]
       IN  \E methodSymbol \in GetProperty(commandName) :
            LET parsed == ParseCommand(commandName, methodSymbol)
            IN  /\ parsed.error.kind # "none"
                /\ members' = [members EXCEPT ![commandName] = methodSymbol]
                /\ thrown' = parsed.error
                /\ pc' = "thrown"
    /\ returned' = [defined |-> TRUE, value |-> commands]
    /\ UNCHANGED <<supportedCommands, idx, commands>>

\* An iteration that throws: parseCommands is left, nothing is returned.
LoopThrow ==
    /\ pc = "loop"
    /\ idx <= Len(supportedCommands)
    /\ LET commandName == supportedCommands[idx]
       IN  \E methodSymbol \in GetProperty(commandName) :
            LET parsed == ParseCommand(commandName, methodSymbol)
            IN  /\ parsed.error.kind # "none"
                /\ members' = [members EXCEPT ![commandName] = methodSymbol]
                /\ thrown' = parsed.error
                /\ pc' = "thrown"
    /\ UNCHANGED <<supportedCommands, idx, commands, returned>>

\* return commands (line 99), once the loop has run out.
Return ==
    /\ pc = "loop"
    /\ idx > Len(supportedCommands)
    /\ returned' = [defined |-> TRUE, value |-> commands]
    /\ pc' = "returned"
    /\ UNCHANGED <<supportedCommands, members, idx, commands, thrown>>

Next == LoopPush \/ LoopThrow \/ Return

Spec == Init /\ [][Next]_vars


(***************************************************************************)
(* Vocabulary of the properties: what a member symbol declares, read off   *)
(* the declaration itself.                                                 *)
(***************************************************************************)
\* The symbol of the k-th requested name.
SymAt(k) == members[supportedCommands[k]]

\* The symbol of the command whose iteration threw.
Failing == SymAt(idx)

SingleDeclaration(sym) == sym.found /\ Len(sym.declarations) = 1

DirectCallable(sym) ==
    /\ SingleDeclaration(sym)
    /\ sym.declarations[1].kind \in {"MethodSignature", "CallSignature"}

CallableProperty(sym) ==
    /\ SingleDeclaration(sym)
    /\ sym.declarations[1].kind = "PropertySignature"
    /\ Len(sym.declarations[1].callSignatures) = 1

\* The member can be normalised to one signature.
Normalizable(sym) == DirectCallable(sym) \/ CallableProperty(sym)

\* The callable of a normalisable member: its type parameters, return type
\* and parameters (declarations for a direct callable, symbols otherwise).
CallableOf(sym) ==
    IF DirectCallable(sym)
    THEN [typeParameters |-> sym.declarations[1].typeParameters,
          returnType |-> sym.declarations[1].type,
          arity |-> Len(sym.declarations[1].parameters)]
    ELSE [typeParameters |-> sym.declarations[1].callSignatures[1].typeParameters,
          returnType |-> sym.declarations[1].callSignatures[1].returnType,
          arity |-> Len(sym.declarations[1].callSignatures[1].parameters)]

DeclaresTypeParameters(sym) ==
    /\ Normalizable(sym)
    /\ CallableOf(sym).typeParameters.defined
    /\ CallableOf(sym).typeParameters.names # <<>>

\* Every parameter symbol of a property's signature has exactly one
\* declaration, a parameter node.
ParametersWellFormed(sym) ==
    \/ DirectCallable(sym)
    \/ /\ CallableProperty(sym)
       /\ \A j \in 1..CallableOf(sym).arity :
            LET ds == sym.declarations[1].callSignatures[1].parameters[j].declarations
            IN  Len(ds) = 1 /\ ds[1].kind = "Parameter"

\* The member passes member resolution.
Resolves(sym) ==
    Normalizable(sym) /\ ~DeclaresTypeParameters(sym) /\ ParametersWellFormed(sym)

\* The declared parameters of a member that resolves.
DeclaredParameters(sym) ==
    IF DirectCallable(sym) THEN sym.declarations[1].parameters
    ELSE [j \in 1..CallableOf(sym).arity |->
            sym.declarations[1].callSignatures[1].parameters[j].declarations[1]]

ReturnsVoid(sym) == CallableOf(sym).returnType.isVoid

FirstIsTypeReference(sym) == DeclaredParameters(sym)[1].type.kind = "TypeReference"

Supported(type) == type.isString \/ type.isBoolean \/ type.isInt32

\* Positions, after the first, of the parameters of an unsupported type.
UnsupportedPositions(sym) ==
    {j \in 2..Len(DeclaredParameters(sym)) : ~Supported(DeclaredParameters(sym)[j].type.sem)}

\* The member passes every check of the loop body.
Acceptable(sym) ==
    /\ Resolves(sym)
    /\ ReturnsVoid(sym)
    /\ CallableOf(sym).arity >= 1
    /\ FirstIsTypeReference(sym)
    /\ UnsupportedPositions(sym) = {}

\* The parameters of the k-th entry of commands.
EntryParams(k) == commands[k].typeAnnotation.params

(***************************************************************************)
(* C1.  The result is built strictly in request order, with no             *)
(* deduplication or reordering: after k iterations without failure the     *)
(* list has exactly k entries and entry i carries the i-th requested       *)
(* name; on return the output is as long as the request and names it in    *)
(* order.                                                                  *)
(***************************************************************************)
C1_RequestOrder ==
    /\ Len(commands) = idx - 1
    /\ \A i \in 1..Len(commands) : commands[i].name = supportedCommands[i]
    /\ pc = "returned" =>
        /\ returned.defined
        /\ Len(returned.value) = Len(supportedCommands)
        /\ \A i \in 1..Len(supportedCommands) : returned.value[i].name = supportedCommands[i]

\* A request that names the same command twice has returned two entries.
C1_Witness ==
    /\ pc = "returned"
    /\ Len(supportedCommands) >= 2
    /\ supportedCommands[1] = supportedCommands[2]
    /\ Len(returned.value) = Len(supportedCommands)

(***************************************************************************)
(* C2.  Fail-fast with no partial output: when a requested command fails   *)
(* a check, parseCommands ends in an error and returns no list, even if    *)
(* earlier commands were valid and accumulated; the error is that of the   *)
(* earliest failing command in request order and no later command is       *)
(* examined.  A list is returned only if every command passed.             *)
(***************************************************************************)
C2_FailFast ==
    /\ pc = "thrown" =>
        /\ ~returned.defined
        /\ thrown.kind # "none"
        /\ thrown.command = supportedCommands[idx]
        /\ ~Acceptable(Failing)
        /\ \A k \in 1..(idx - 1) : Acceptable(SymAt(k))
        /\ \A k \in (idx + 1)..Len(supportedCommands) :
            SymAt(k).asked => \E j \in 1..idx : supportedCommands[j] = supportedCommands[k]
    /\ pc = "returned" =>
        /\ thrown.kind = "none"
        /\ \A k \in 1..Len(supportedCommands) : Acceptable(SymAt(k))
    /\ pc = "loop" => ~returned.defined /\ thrown.kind = "none"

\* The second command failed after a valid first one was accumulated.
C2_Witness ==
    /\ pc = "thrown"
    /\ idx = 2
    /\ Len(commands) = 1
    /\ supportedCommands[1] # supportedCommands[2]
    /\ ~returned.defined

\* The entries the two documented scenarios are to return.
FocusShape ==
    [name |-> "focus", optional |-> FALSE,
     typeAnnotation |->
        [type |-> "FunctionTypeAnnotation",
         params |-> <<[name |-> "durationMs",
                       typeAnnotation |-> [type |-> "Int32TypeAnnotation"]]>>]]

SetColorShape ==
    [name |-> "setColor", optional |-> FALSE,
     typeAnnotation |->
        [type |-> "FunctionTypeAnnotation",
         params |-> <<[name |-> "color",
                       typeAnnotation |-> [type |-> "StringTypeAnnotation"]],
                      [name |-> "animated",
                       typeAnnotation |-> [type |-> "BooleanTypeAnnotation"]]>>]]

ScenarioShape(name) == IF name = "focus" THEN FocusShape ELSE SetColorShape

ScenarioSymbol(name) ==
    IF name = "focus" THEN MemberSymbol(<<FocusDeclaration>>)
    ELSE MemberSymbol(<<SetColorDeclaration>>)

(***************************************************************************)
(* C3.  focus(viewRef: Ref<'MyView'>, durationMs: Int32): void and the     *)
(* property setColor of type (ref: Ref<'MyView'>, color: string,           *)
(* animated: boolean) => void are accepted: ["focus"] returns              *)
(* [{focus, optional false, [durationMs: Int32]}] and ["setColor"]         *)
(* returns [{setColor, optional false, [color: String, animated:           *)
(* Boolean]}].                                                             *)
(***************************************************************************)
C3_DocumentedShapesAccepted ==
    /\ \A k \in 1..Len(supportedCommands) :
        (k <= idx /\ SymAt(k) = ScenarioSymbol(supportedCommands[k])) =>
            /\ ~(pc = "thrown" /\ k = idx)
            /\ k <= Len(commands) => commands[k] = ScenarioShape(supportedCommands[k])
    /\ \A name \in CommandNames :
        (pc = "returned" /\ supportedCommands = <<name>>
            /\ members[name] = ScenarioSymbol(name)) =>
                returned.value = <<ScenarioShape(name)>>

\* Both scenarios in one request, returned.
C3_Witness ==
    /\ pc = "returned"
    /\ supportedCommands = <<"focus", "setColor">>
    /\ members["focus"] = ScenarioSymbol("focus")
    /\ members["setColor"] = ScenarioSymbol("setColor")
    /\ returned.value = <<FocusShape, SetColorShape>>


\* The member passed resolution, the void check and the arity check.
PassedArity(sym) == Resolves(sym) /\ ReturnsVoid(sym) /\ CallableOf(sym).arity >= 1

(***************************************************************************)
(* C4.  For a command that passed member resolution, the void-return       *)
(* check and the arity check, the first-parameter check fails with         *)
(* InvalidRefParameter if and only if the first parameter's declared       *)
(* type is not a type-reference node: every type-reference node passes,    *)
(* whatever its type name and whatever the number or kind of its type      *)
(* arguments.                                                              *)
(***************************************************************************)
C4_InvalidRefIffNotTypeReference ==
    /\ pc = "thrown" =>
        /\ thrown.kind = "InvalidRefParameter" => PassedArity(Failing)
        /\ PassedArity(Failing) =>
            (thrown.kind = "InvalidRefParameter" <=> ~FirstIsTypeReference(Failing))
    /\ \A k \in 1..Len(commands) : PassedArity(SymAt(k)) /\ FirstIsTypeReference(SymAt(k))

\* A command whose first parameter is Ref<'MyView'> was pushed, and the
\* next one, whose first parameter is no type reference, was refused.
C4_Witness ==
    /\ pc = "thrown"
    /\ thrown.kind = "InvalidRefParameter"
    /\ Len(commands) = 1
    /\ DeclaredParameters(SymAt(1))[1].type.typeName = "Ref"
    /\ DeclaredParameters(SymAt(1))[1].type.typeArguments = TypeArguments(<<LiteralTypeArg>>)

\* The tag the priority String, Boolean, Int32 gives a type.
ExpectedTag(type) ==
    CASE type.isString -> "StringTypeAnnotation"
      [] ~type.isString /\ type.isBoolean -> "BooleanTypeAnnotation"
      [] ~type.isString /\ ~type.isBoolean /\ type.isInt32 -> "Int32TypeAnnotation"
      [] OTHER -> "unsupported"

PassedViewRef(sym) == PassedArity(sym) /\ FirstIsTypeReference(sym)

(***************************************************************************)
(* C5.  Every parameter after the first is classified by a fixed           *)
(* priority: String if string-like, otherwise Boolean if boolean-like,     *)
(* otherwise Int32 if int32-like, so that a type satisfying several        *)
(* predicates gets the earliest tag.  A type satisfying none fails the     *)
(* call with UnsupportedParamType naming the command and the first         *)
(* unsupported parameter in declaration order, and nothing is appended     *)
(* for that command.                                                       *)
(***************************************************************************)
C5_ParameterClassification ==
    /\ \A k \in 1..Len(commands) :
        /\ UnsupportedPositions(SymAt(k)) = {}
        /\ \A j \in 1..Len(EntryParams(k)) :
            /\ DOMAIN EntryParams(k)[j].typeAnnotation = {"type"}
            /\ EntryParams(k)[j].typeAnnotation.type
                = ExpectedTag(DeclaredParameters(SymAt(k))[j + 1].type.sem)
    /\ pc = "thrown" =>
        /\ thrown.kind = "UnsupportedParamType" => PassedViewRef(Failing)
        /\ PassedViewRef(Failing) =>
            /\ UnsupportedPositions(Failing) # {}
            /\ thrown.kind = "UnsupportedParamType"
            /\ thrown.command = supportedCommands[idx]
            /\ LET first == DeclaredParameters(Failing)[Min(UnsupportedPositions(Failing))]
               IN  thrown.parameter = first.name /\ thrown.paramType = first.type.text
            /\ Len(commands) = idx - 1

\* A parameter that is string-like and boolean-like was tagged String, and
\* the next command failed on the first of two unsupported parameters.
C5_Witness ==
    /\ pc = "thrown"
    /\ thrown.kind = "UnsupportedParamType"
    /\ Cardinality(UnsupportedPositions(Failing)) = 2
    /\ Len(commands) = 1
    /\ Len(EntryParams(1)) = 1
    /\ DeclaredParameters(SymAt(1))[2].type.sem.isString
    /\ DeclaredParameters(SymAt(1))[2].type.sem.isBoolean
    /\ EntryParams(1)[1].typeAnnotation.type = "StringTypeAnnotation"

(***************************************************************************)
(* C6.  For every emitted command, optional is true if and only if the     *)
(* member's single declaration carries the optional marker: the method or  *)
(* call-signature declaration's own marker, or for a callable-typed        *)
(* property the property declaration's marker.                             *)
(***************************************************************************)
C6_OptionalIsDeclarationMarker ==
    \A k \in 1..Len(commands) :
        /\ SingleDeclaration(SymAt(k))
        /\ commands[k].optional = SymAt(k).declarations[1].questionToken

\* An optional callable-typed property and a required method were emitted.
C6_Witness ==
    /\ Len(commands) = 2
    /\ SymAt(1).declarations[1].kind = "PropertySignature"
    /\ SymAt(1).declarations[1].questionToken
    /\ commands[1].optional
    /\ SymAt(2).declarations[1].kind = "MethodSignature"
    /\ ~SymAt(2).declarations[1].questionToken
    /\ ~commands[2].optional

(***************************************************************************)
(* C7.  A requested name absent from the type fails with MemberNotFound.   *)
(* A member that is present fails with NotAFunction exactly when it        *)
(* cannot be normalised to a signature: zero or several declaration        *)
(* sites, a single declaration that is neither a method or call signature  *)
(* nor a property, or a property whose type has zero or several call       *)
(* signatures.  No other failure kind is produced for these cases.         *)
(***************************************************************************)
C7_MemberNotFoundAndNotAFunction ==
    /\ pc = "thrown" =>
        /\ thrown.kind = "MemberNotFound" <=> ~Failing.found
        /\ Failing.found => (thrown.kind = "NotAFunction" <=> ~Normalizable(Failing))
    /\ \A k \in 1..Len(commands) : SymAt(k).found /\ Normalizable(SymAt(k))

\* A member with two declaration sites failed with NotAFunction.
C7_Witness ==
    /\ pc = "thrown"
    /\ thrown.kind = "NotAFunction"
    /\ Failing.found
    /\ Len(Failing.declarations) = 2

(***************************************************************************)
(* C8.  A command whose callable declares one or more type parameters      *)
(* always fails with GenericNotAllowed naming the command, in both         *)
(* declaration shapes and whatever its return type, parameter count,       *)
(* first parameter or parameter types; a callable with no type parameters  *)
(* (absent or empty list) never fails with GenericNotAllowed.              *)
(***************************************************************************)
C8_GenericNotAllowed ==
    /\ pc = "thrown" =>
        /\ thrown.kind = "GenericNotAllowed" <=> DeclaresTypeParameters(Failing)
        /\ thrown.kind = "GenericNotAllowed" => thrown.command = supportedCommands[idx]
    /\ \A k \in 1..Len(commands) : ~DeclaresTypeParameters(SymAt(k))

\* A property whose single call signature is generic, returns a value and
\* has no parameters failed with GenericNotAllowed.
C8_Witness ==
    /\ pc = "thrown"
    /\ thrown.kind = "GenericNotAllowed"
    /\ CallableProperty(Failing)
    /\ ~ReturnsVoid(Failing)
    /\ CallableOf(Failing).arity = 0

(***************************************************************************)
(* C9.  The first parameter of an accepted command is never exposed: a     *)
(* command whose signature has n >= 1 parameters is emitted with exactly   *)
(* n - 1 parameters, entry j named after declared parameter j + 1; one     *)
(* parameter gives an empty list; a command with zero parameters fails     *)
(* with MissingRefParameter instead.                                       *)
(***************************************************************************)
C9_FirstParameterNotExposed ==
    /\ \A k \in 1..Len(commands) :
        /\ Resolves(SymAt(k))
        /\ Len(DeclaredParameters(SymAt(k))) >= 1
        /\ Len(EntryParams(k)) = Len(DeclaredParameters(SymAt(k))) - 1
        /\ \A j \in 1..Len(EntryParams(k)) :
            EntryParams(k)[j].name = DeclaredParameters(SymAt(k))[j + 1].name
    /\ pc = "thrown" =>
        /\ thrown.kind = "MissingRefParameter" =>
            Resolves(Failing) /\ CallableOf(Failing).arity = 0
        /\ (Resolves(Failing) /\ ReturnsVoid(Failing) /\ CallableOf(Failing).arity = 0) =>
            thrown.kind = "MissingRefParameter"

\* A one-parameter command was emitted with no parameters, a
\* three-parameter command with two.
C9_Witness ==
    /\ Len(commands) = 2
    /\ Len(DeclaredParameters(SymAt(1))) = 1
    /\ EntryParams(1) = <<>>
    /\ Len(DeclaredParameters(SymAt(2))) = Len(ParamNames)
    /\ Len(EntryParams(2)) = Len(ParamNames) - 1

\* The first check, in the stated order, that a member violates.
FirstViolatedCheck(sym) ==
    IF ~sym.found THEN "MemberNotFound"
    ELSE IF ~Normalizable(sym) THEN "NotAFunction"
    ELSE IF DeclaresTypeParameters(sym) THEN "GenericNotAllowed"
    ELSE IF ~ParametersWellFormed(sym) THEN "MalformedParameter"
    ELSE IF ~ReturnsVoid(sym) THEN "NonVoidReturn"
    ELSE IF CallableOf(sym).arity = 0 THEN "MissingRefParameter"
    ELSE IF ~FirstIsTypeReference(sym) THEN "InvalidRefParameter"
    ELSE IF UnsupportedPositions(sym) # {} THEN "UnsupportedParamType"
    ELSE "none"

(***************************************************************************)
(* C10.  Within one command the checks run in a fixed order and the first  *)
(* violated one determines the error: MemberNotFound, then NotAFunction    *)
(* or GenericNotAllowed, then MalformedParameter, then NonVoidReturn,      *)
(* then MissingRefParameter, then InvalidRefParameter, then                *)
(* UnsupportedParamType.                                                   *)
(***************************************************************************)
C10_CheckOrder ==
    /\ pc = "thrown" => thrown.kind = FirstViolatedCheck(Failing)
    /\ \A k \in 1..Len(commands) : FirstViolatedCheck(SymAt(k)) = "none"

\* A command that returns a value and has no parameters failed with
\* NonVoidReturn.
C10_Witness ==
    /\ pc = "thrown"
    /\ thrown.kind = "NonVoidReturn"
    /\ CallableOf(Failing).arity = 0

=============================================================================
